---- MODULE Spec2Model ----
(***************************************************************************)
(* SpoolDB weight-accounting engine: the spools / filaments /               *)
(* consumption_entries tables, the three repositories that write them and   *)
(* the HTTP route handlers that call the repositories.                      *)
(*                                                                          *)
(* Weights and amounts are whole grams (the REAL columns restricted to      *)
(* integers).  Timestamps are milliseconds since the start of the run.      *)
(* A request body is a record whose domain is the set of fields the request *)
(* supplies, so "field !== undefined" is "field \in DOMAIN input".          *)
(***************************************************************************)
EXTENDS Integers, Sequences, FiniteSets, TLC

\* ---- bounds of the model ------------------------------------------------
MaxFilaments == 3     \* filaments ever created
MaxSpools == 5        \* spools ever created
MaxEntries == 3       \* consumption entries ever created
MaxRequests == 2      \* requests handled after the stock was set up
MaxLedgerRequests == 4  \* the same, when only consumption requests arrive
MaxE2ERequests == 3   \* the same, in the end-to-end run
MaxClients == 2       \* clients with a submission under way at the same time
MaxCrashRequests == 2 \* requests received when the process may stop at any statement
MaxNotifyRequests == 3 \* requests received when the low-stock list is read
MaxArchiveRequests == 2 \* requests received when filaments are archived and restocked
MaxAccountantCalls == 3 \* requests and repository calls when create is called directly
MaxDepleteRequests == 3 \* requests received when stock is consumed and restocked
MaxStickyRequests == 3 \* requests received when spools are re-weighed and consumed from

\* ---- values of the program ----------------------------------------------
NULL == -1            \* SQL NULL / JS null in a numeric column
undefined == -2       \* JS undefined where the code reads a missing number
NaN == -3             \* JS NaN (undefined used in arithmetic)
MsPerSecond == 1000   \* datetime('now') has second granularity
NoResponse == 0       \* status of a request whose response was not sent (yet)
DefaultThreshold == 100 \* restock_threshold_g when the setting is missing

\* ---- inputs the requests are drawn from ----------------------------------
EmptyWeights == {NULL, 2}
Amounts == {3, 8}
\* amounts of the entries logged against the 1000 g spool of the end-to-end run
E2EAmounts == {1, 250, 251, 375, 376, 499, 500, 501, 749, 750, 751}
\* (starting_weight_g, weight_g) of a spool entered by hand: new, or partly used
SpoolWeights == {<<10, 10>>, <<6, 6>>, <<10, 6>>}

VARIABLES
    filaments,     \* filaments table: id -> [archived]
    filamentSeq,   \* sqlite_sequence of filaments (AUTOINCREMENT)
    spools,        \* spools table: id -> row
    spoolSeq,      \* sqlite_sequence of spools
    entries,       \* consumption_entries table: id -> [filament_id, amount_g]
    entrySeq,      \* sqlite_sequence of consumption_entries
    now,           \* the system clock at the last request, in ms
    requests,      \* number of requests handled
    last,          \* the last request handled: [op, input, status] and the
                   \* spools and entries tables as they were before it
    inflight       \* the requests received and not yet answered:
                   \* client -> [op, input, pc, ...]

vars == <<filaments, filamentSeq, spools, spoolSeq, entries, entrySeq, now, requests, last,
          inflight>>

\* ---- helpers --------------------------------------------------------------
Has(input, field) == field \in DOMAIN input

\* JS "x || null" on a number: 0, null and undefined all become null
OrNull(x) == IF x \in {0, NULL, undefined} THEN NULL ELSE x

\* JS "x || 0" on a nullable number
OrZero(x) == IF x \in {NULL, undefined} THEN 0 ELSE x

\* f with the row k set to v (k may be new)
Put(f, k, v) == [x \in DOMAIN f \union {k} |-> IF x = k THEN v ELSE f[x]]

\* f without the rows whose key is in ks
Drop(f, ks) == [x \in DOMAIN f \ ks |-> f[x]]

RECURSIVE SumOver(_, _)
SumOver(f, S) ==
    IF S = {} THEN 0
    ELSE LET x == CHOOSE y \in S : TRUE IN f[x] + SumOver(f, S \ {x})

\* all orders (sequences without repetition) of the finite set S
Perms(S) ==
    {p \in [1..Cardinality(S) -> S] : \A i, j \in 1..Cardinality(S) : p[i] = p[j] => i = j}

\* Array.prototype.sort((a, b) => key(b) - key(a)): stable, descending by key
SortDesc(seq, key) ==
    LET n == Len(seq)
        rank(i) == 1 + Cardinality({j \in 1..n :
                        \/ key[seq[j]] > key[seq[i]]
                        \/ key[seq[j]] = key[seq[i]] /\ j < i})
    IN  [p \in 1..n |-> seq[CHOOSE i \in 1..n : rank(i) = p]]

\* Array.prototype.sort((a, b) => key(a) - key(b)): stable, ascending by key
SortAsc(seq, key) ==
    LET n == Len(seq)
        rank(i) == 1 + Cardinality({j \in 1..n :
                        \/ key[seq[j]] < key[seq[i]]
                        \/ key[seq[j]] = key[seq[i]] /\ j < i})
    IN  [p \in 1..n |-> seq[CHOOSE i \in 1..n : rank(i) = p]]

\* Array.prototype.filter
RECURSIVE Filter(_, _)
Filter(seq, keep) ==
    IF seq = <<>> THEN <<>>
    ELSE IF Head(seq) \in keep THEN <<Head(seq)>> \o Filter(Tail(seq), keep)
         ELSE Filter(Tail(seq), keep)

\* datetime('now'): the clock truncated to whole seconds, as a ms value
Datetime(t) == (t \div MsPerSecond) * MsPerSecond

\* ---- SpoolRepository ------------------------------------------------------
\* The spools table is passed around as S = [rows |-> id -> row, seq |-> last id].

\* ids of the rows of one filament, archived ones included or not
SpoolIds(rows, filamentId, includeArchived) ==
    {id \in DOMAIN rows :
        /\ rows[id].filament_id = filamentId
        /\ (includeArchived \/ ~rows[id].archived)}

\* SpoolRepository.findByFilamentId: ORDER BY created_at DESC; the order of rows
\* with equal created_at is not fixed by the query, so every order is a result
findByFilamentId(rows, filamentId, includeArchived) ==
    {o \in Perms(SpoolIds(rows, filamentId, includeArchived)) :
        \A i, j \in DOMAIN o : i < j => rows[o[i]].created_at >= rows[o[j]].created_at}

\* SpoolRepository.create
SpoolCreate(S, input, t) ==
    [rows |-> Put(S.rows, S.seq + 1,
                  [filament_id |-> input.filament_id,
                   starting_weight_g |-> input.starting_weight_g,
                   empty_weight_g |-> OrNull(input.empty_weight_g),
                   weight_g |-> input.weight_g,
                   archived |-> FALSE,
                   created_at |-> Datetime(t),
                   updated_at |-> t]),
     seq |-> S.seq + 1]

\* variant: a spool exactly at its tare weight is not yet empty
shouldArchive_belowTare(newWeight, newEmptyWeight) == newWeight - OrZero(newEmptyWeight) < 0

\* variant: the empty weight is left out of the test
shouldArchive_ignoresTare(newWeight, newEmptyWeight) == newWeight <= 0

\* the auto-archive test of SpoolRepository.update
shouldArchive(newWeight, newEmptyWeight) == newWeight - OrZero(newEmptyWeight) <= 0

\* variant: the auto-archive rule is applied before the supplied flag is looked at
SpoolUpdate_autoArchiveFirst(S, input, t) ==
    IF input.id \notin DOMAIN S.rows THEN S
    ELSE
      LET existing == S.rows[input.id]
          newWeight == IF Has(input, "weight_g") THEN input.weight_g ELSE existing.weight_g
          newEmptyWeight == IF Has(input, "empty_weight_g") THEN input.empty_weight_g
                            ELSE existing.empty_weight_g
          archived == IF newWeight - OrZero(newEmptyWeight) <= 0 THEN TRUE
                      ELSE IF Has(input, "archived") THEN input.archived
                      ELSE existing.archived
      IN  [S EXCEPT !.rows[input.id] =
              [existing EXCEPT
                  !.starting_weight_g = IF Has(input, "starting_weight_g")
                                        THEN input.starting_weight_g ELSE @,
                  !.empty_weight_g = newEmptyWeight,
                  !.weight_g = newWeight,
                  !.archived = archived,
                  !.updated_at = t]]

\* SpoolRepository.update
SpoolUpdate(S, input, t) ==
    IF input.id \notin DOMAIN S.rows THEN S
    ELSE
      LET existing == S.rows[input.id]
          newWeight == IF Has(input, "weight_g") THEN input.weight_g ELSE existing.weight_g
          newEmptyWeight == IF Has(input, "empty_weight_g") THEN input.empty_weight_g
                            ELSE existing.empty_weight_g
          archived == IF Has(input, "archived") THEN input.archived
                      ELSE IF shouldArchive(newWeight, newEmptyWeight) THEN TRUE
                      ELSE existing.archived
      IN  [S EXCEPT !.rows[input.id] =
              [existing EXCEPT
                  !.starting_weight_g = IF Has(input, "starting_weight_g")
                                        THEN input.starting_weight_g ELSE @,
                  !.empty_weight_g = newEmptyWeight,
                  !.weight_g = newWeight,
                  !.archived = archived,
                  !.updated_at = t]]

\* SpoolRepository.delete
SpoolDelete(S, id) == [S EXCEPT !.rows = Drop(S.rows, {id})]

\* SpoolRepository.archive
SpoolArchive(S, id, archived, t) == SpoolUpdate(S, [id |-> id, archived |-> archived], t)

\* variant: the cascade archives only the spools that are used up
archiveByFilamentId_usedUpOnly(S, filamentId, archived, t) ==
    [S EXCEPT !.rows =
        [id \in DOMAIN S.rows |->
            IF /\ S.rows[id].filament_id = filamentId
               /\ S.rows[id].weight_g - OrZero(S.rows[id].empty_weight_g) <= 0
            THEN [S.rows[id] EXCEPT !.archived = archived, !.updated_at = t]
            ELSE S.rows[id]]]

\* SpoolRepository.archiveByFilamentId: one UPDATE over every row of the filament
archiveByFilamentId(S, filamentId, archived, t) ==
    [S EXCEPT !.rows =
        [id \in DOMAIN S.rows |->
            IF S.rows[id].filament_id = filamentId
            THEN [S.rows[id] EXCEPT !.archived = archived, !.updated_at = t]
            ELSE S.rows[id]]]

\* ---- FilamentRepository ---------------------------------------------------
\* FilamentRepository.calculateRemainingWeight: SUM(weight_g) over archived = 0
calculateRemainingWeight(rows, filamentId) ==
    SumOver([id \in DOMAIN rows |-> rows[id].weight_g], SpoolIds(rows, filamentId, FALSE))

\* FilamentRepository.create: the filament row, then its initial spool if a
\* starting weight was supplied.  Result: [filaments, seq, S]
FilamentCreate(F, fseq, S, input, t) ==
    LET filamentId == fseq + 1
    IN  [filaments |-> Put(F, filamentId, [archived |-> FALSE]),
         seq |-> filamentId,
         S |-> IF Has(input, "starting_weight_g")
               THEN SpoolCreate(S, [filament_id |-> filamentId,
                                    starting_weight_g |-> input.starting_weight_g,
                                    empty_weight_g |-> OrNull(IF Has(input, "empty_weight_g")
                                                              THEN input.empty_weight_g
                                                              ELSE undefined),
                                    weight_g |-> input.starting_weight_g], t)
               ELSE S]

\* FilamentRepository.update (the fields that matter here: archived).
\* Result: [filaments, S, found]
FilamentUpdate(F, S, input, t) ==
    IF input.id \notin DOMAIN F THEN [filaments |-> F, S |-> S, found |-> FALSE]
    ELSE [filaments |-> [F EXCEPT ![input.id].archived =
                            IF Has(input, "archived") THEN input.archived ELSE @],
          S |-> IF Has(input, "archived") /\ input.archived = TRUE
                THEN archiveByFilamentId(S, input.id, TRUE, t)
                ELSE S,
          found |-> TRUE]

\* variant: the cascade passes the flag on, so unarchiving a filament
\* unarchives its spools
FilamentArchive_cascadeBothWays(F, S, id, archived, t) ==
    LET filament == FilamentUpdate(F, S, [id |-> id, archived |-> archived], t)
    IN  [filament EXCEPT !.S = archiveByFilamentId(@, id, archived, t)]

\* FilamentRepository.archive
FilamentArchive(F, S, id, archived, t) ==
    LET filament == FilamentUpdate(F, S, [id |-> id, archived |-> archived], t)
    IN  [filament EXCEPT !.S = IF archived THEN archiveByFilamentId(@, id, TRUE, t) ELSE @]

\* FilamentRepository.hasConsumptionEntries
hasConsumptionEntries(E, id) == \E e \in DOMAIN E : E[e].filament_id = id

\* variant: the cascade is not restricted to the deleted filament's rows
FilamentDelete_cascadeAll(F, S, E, id, force) ==
    IF hasConsumptionEntries(E, id) /\ ~force
    THEN [filaments |-> F, S |-> S, entries |-> E, deleted |-> FALSE]
    ELSE [filaments |-> Drop(F, {id}),
          S |-> [S EXCEPT !.rows = <<>>],
          entries |-> Drop(E, {e \in DOMAIN E : E[e].filament_id = id}),
          deleted |-> id \in DOMAIN F]

\* variant: the cascade reaches the spools but not the consumption entries
FilamentDelete_keepsEntries(F, S, E, id, force) ==
    IF hasConsumptionEntries(E, id) /\ ~force
    THEN [filaments |-> F, S |-> S, entries |-> E, deleted |-> FALSE]
    ELSE [filaments |-> Drop(F, {id}),
          S |-> [S EXCEPT !.rows = Drop(@, {s \in DOMAIN @ : @[s].filament_id = id})],
          entries |-> E,
          deleted |-> id \in DOMAIN F]

\* FilamentRepository.delete, with ON DELETE CASCADE on spools and entries.
\* Result: [filaments, S, entries, deleted]
FilamentDelete(F, S, E, id, force) ==
    IF hasConsumptionEntries(E, id) /\ ~force
    THEN [filaments |-> F, S |-> S, entries |-> E, deleted |-> FALSE]
    ELSE [filaments |-> Drop(F, {id}),
          S |-> [S EXCEPT !.rows = Drop(@, {s \in DOMAIN @ : @[s].filament_id = id})],
          entries |-> Drop(E, {e \in DOMAIN E : E[e].filament_id = id}),
          deleted |-> id \in DOMAIN F]

\* FilamentRepository.restock: quantity calls of SpoolRepository.create
RECURSIVE RestockLoop(_, _, _, _, _, _)
RestockLoop(S, id, quantity, weight_per_spool_g, empty_weight_g, t) ==
    IF quantity <= 0 THEN S
    ELSE RestockLoop(SpoolCreate(S, [filament_id |-> id,
                                     starting_weight_g |-> weight_per_spool_g,
                                     empty_weight_g |-> empty_weight_g,
                                     weight_g |-> weight_per_spool_g], t),
                     id, quantity - 1, weight_per_spool_g, empty_weight_g, t)

\* variant: the loop stops one spool early
FilamentRestock_oneTooFew(F, S, id, quantity, weight_per_spool_g, empty_weight_g, t) ==
    IF id \notin DOMAIN F THEN S
    ELSE RestockLoop(S, id, quantity - 1, weight_per_spool_g, empty_weight_g, t)

FilamentRestock(F, S, id, quantity, weight_per_spool_g, empty_weight_g, t) ==
    IF id \notin DOMAIN F THEN S
    ELSE RestockLoop(S, id, quantity, weight_per_spool_g, empty_weight_g, t)

\* ---- ConsumptionRepository ------------------------------------------------
\* JS comparisons and subtraction where the right or left side may be
\* undefined / NaN (update() passes input.amount_g! without checking it)
IsNumber(x) == x \notin {undefined, NaN}
JsGe(x, y) == IsNumber(x) /\ IsNumber(y) /\ x >= y
JsGt(x, y) == IsNumber(x) /\ IsNumber(y) /\ x > y
JsMinus(x, y) == IF IsNumber(x) /\ IsNumber(y) THEN x - y ELSE NaN
Max(a, b) == IF a >= b THEN a ELSE b

\* the for loop of deductFromFilament over otherSpools; fetched holds the rows
\* as read at the start of deductFromFilament
RECURSIVE DeductLoop(_, _, _, _, _)
DeductLoop(S, fetched, otherSpools, remaining, t) ==
    IF otherSpools = <<>> \/ remaining <= 0 THEN S
    ELSE LET spool == Head(otherSpools)
             w == fetched[spool].weight_g
         IN  IF w >= remaining
             THEN DeductLoop(SpoolUpdate(S, [id |-> spool, weight_g |-> Max(0, w - remaining)], t),
                             fetched, Tail(otherSpools), 0, t)
             ELSE DeductLoop(SpoolUpdate(S, [id |-> spool, weight_g |-> 0], t),
                             fetched, Tail(otherSpools), remaining - w, t)

\* variant: the newest spool first, used or not
TargetSpools_newestFirst(fetched, order) ==
    SortDesc(order, [id \in DOMAIN fetched |-> fetched[id].created_at])

\* the spools deductFromFilament may start from, most preferred first
TargetSpools(fetched, order) ==
    LET usedSpools == Filter(order, {id \in DOMAIN fetched :
                                fetched[id].weight_g < fetched[id].starting_weight_g})
    IN  IF Len(usedSpools) > 0
        THEN SortDesc(usedSpools, [id \in DOMAIN fetched |-> fetched[id].updated_at])
        ELSE SortDesc(order, [id \in DOMAIN fetched |-> fetched[id].created_at])

\* variant: the whole amount is taken from the first spool, whatever it holds
deductFromFilament_firstSpoolOnly(S, order, amountG, t) ==
    IF Len(order) = 0 THEN S
    ELSE
      LET targetSpool == TargetSpools(S.rows, order)[1]
      IN  SpoolUpdate(S, [id |-> targetSpool,
                          weight_g |-> S.rows[targetSpool].weight_g - amountG], t)

\* ConsumptionRepository.deductFromFilament; order is the result of
\* findByFilamentId(filamentId, false)
deductFromFilament(S, order, amountG, t) ==
    IF Len(order) = 0 THEN S
    ELSE
      LET fetched == S.rows
          targetSpools == TargetSpools(fetched, order)
          targetSpool == targetSpools[1]
          w == fetched[targetSpool].weight_g
      IN  IF JsGe(w, amountG)
          THEN SpoolUpdate(S, [id |-> targetSpool, weight_g |-> Max(0, w - amountG)], t)
          ELSE
            LET remaining == JsMinus(amountG, w)
                S1 == SpoolUpdate(S, [id |-> targetSpool, weight_g |-> 0], t)
            IN  IF JsGt(remaining, 0)
                THEN DeductLoop(S1, fetched,
                                SortDesc(Tail(targetSpools),
                                         [id \in DOMAIN fetched |-> fetched[id].weight_g]),
                                remaining, t)
                ELSE S1

\* variant: the archived spools of the filament are targets as well
Deduct_includesArchived(S, filamentId, amountG, t) ==
    {deductFromFilament(S, order, amountG, t) :
        order \in findByFilamentId(S.rows, filamentId, TRUE)}

\* every result of deductFromFilament(filamentId, amountG)
Deduct(S, filamentId, amountG, t) ==
    {deductFromFilament(S, order, amountG, t) :
        order \in findByFilamentId(S.rows, filamentId, FALSE)}

\* variant: the amount goes back to the heaviest spool
restoreToFilament_heaviest(S, order, filamentId, amountG, t) ==
    IF Len(order) = 0
    THEN SpoolCreate(S, [filament_id |-> filamentId,
                         starting_weight_g |-> amountG,
                         empty_weight_g |-> NULL,
                         weight_g |-> amountG], t)
    ELSE
      LET sortedSpools == SortDesc(order, [id \in DOMAIN S.rows |-> S.rows[id].weight_g])
          lightestSpool == sortedSpools[1]
      IN  SpoolUpdate(S, [id |-> lightestSpool,
                          weight_g |-> S.rows[lightestSpool].weight_g + amountG], t)

\* variant: with no active spool left there is nothing to add the amount to
restoreToFilament_noNewSpool(S, order, filamentId, amountG, t) ==
    IF Len(order) = 0 THEN S
    ELSE
      LET sortedSpools == SortAsc(order, [id \in DOMAIN S.rows |-> S.rows[id].weight_g])
          lightestSpool == sortedSpools[1]
      IN  SpoolUpdate(S, [id |-> lightestSpool,
                          weight_g |-> S.rows[lightestSpool].weight_g + amountG], t)

\* ConsumptionRepository.restoreToFilament; order as in deductFromFilament
restoreToFilament(S, order, filamentId, amountG, t) ==
    IF Len(order) = 0
    THEN SpoolCreate(S, [filament_id |-> filamentId,
                         starting_weight_g |-> amountG,
                         empty_weight_g |-> NULL,
                         weight_g |-> amountG], t)
    ELSE
      LET sortedSpools == SortAsc(order, [id \in DOMAIN S.rows |-> S.rows[id].weight_g])
          lightestSpool == sortedSpools[1]
      IN  SpoolUpdate(S, [id |-> lightestSpool,
                          weight_g |-> S.rows[lightestSpool].weight_g + amountG], t)

\* variant: the amount may go back to an archived spool of the filament
Restore_includesArchived(S, filamentId, amountG, t) ==
    {restoreToFilament(S, order, filamentId, amountG, t) :
        order \in findByFilamentId(S.rows, filamentId, TRUE)}

\* every result of restoreToFilament(filamentId, amountG)
Restore(S, filamentId, amountG, t) ==
    {restoreToFilament(S, order, filamentId, amountG, t) :
        order \in findByFilamentId(S.rows, filamentId, FALSE)}

\* ConsumptionRepository.create: INSERT the entry, then deduct.
\* Every result, as [entries, seq, S]
ConsumptionCreate(E, eseq, S, input, t) ==
    {[entries |-> Put(E, eseq + 1, [filament_id |-> input.filament_id,
                                    amount_g |-> input.amount_g]),
      seq |-> eseq + 1,
      S |-> S1] : S1 \in Deduct(S, input.filament_id, input.amount_g, t)}

\* variant: the new amount is deducted instead of the difference to the old one
AdjustAmount_wholeAmount(S, input, existing, t) ==
    LET weightDiff == IF Has(input, "amount_g") THEN input.amount_g - existing.amount_g ELSE 0
        filamentId == IF Has(input, "filament_id") THEN input.filament_id
                      ELSE existing.filament_id
    IN  IF weightDiff = 0 THEN {S}
        ELSE IF weightDiff > 0 THEN Deduct(S, filamentId, input.amount_g, t)
        ELSE Restore(S, filamentId, -weightDiff, t)

\* variant: the difference is settled with the filament the entry had before
AdjustAmount_oldFilament(S, input, existing, t) ==
    LET weightDiff == IF Has(input, "amount_g") THEN input.amount_g - existing.amount_g ELSE 0
    IN  IF weightDiff = 0 THEN {S}
        ELSE IF weightDiff > 0 THEN Deduct(S, existing.filament_id, weightDiff, t)
        ELSE Restore(S, existing.filament_id, -weightDiff, t)

\* the first adjustment of ConsumptionRepository.update: "if (weightDiff !== 0)"
AdjustAmount(S, input, existing, t) ==
    LET weightDiff == IF Has(input, "amount_g") THEN input.amount_g - existing.amount_g ELSE 0
        filamentId == IF Has(input, "filament_id") THEN input.filament_id
                      ELSE existing.filament_id
    IN  IF weightDiff = 0 THEN {S}
        ELSE IF weightDiff > 0 THEN Deduct(S, filamentId, weightDiff, t)
        ELSE Restore(S, filamentId, -weightDiff, t)

\* the second adjustment of ConsumptionRepository.update: "if filament changed"
AdjustFilament(S, input, existing, t) ==
    IF Has(input, "filament_id") /\ input.filament_id # existing.filament_id
    THEN UNION {Deduct(S1, input.filament_id,
                       IF Has(input, "amount_g") THEN input.amount_g ELSE undefined, t) :
                S1 \in Restore(S, existing.filament_id, existing.amount_g, t)}
    ELSE {S}

\* ConsumptionRepository.update.  Every result, as [entries, S]
ConsumptionUpdate(E, S, input, t) ==
    IF input.id \notin DOMAIN E THEN {[entries |-> E, S |-> S]}
    ELSE
      LET existing == E[input.id]
          row == [filament_id |-> IF Has(input, "filament_id") THEN input.filament_id
                                  ELSE existing.filament_id,
                  amount_g |-> IF Has(input, "amount_g") THEN input.amount_g
                               ELSE existing.amount_g]
      IN  {[entries |-> [E EXCEPT ![input.id] = row], S |-> S2] :
              S2 \in UNION {AdjustFilament(S1, input, existing, t) :
                              S1 \in AdjustAmount(S, input, existing, t)}}

\* ConsumptionRepository.delete.  Every result, as [entries, S]
ConsumptionDelete(E, S, id, t) ==
    IF id \notin DOMAIN E THEN {[entries |-> E, S |-> S]}
    ELSE {[entries |-> Drop(E, {id}), S |-> S1] :
              S1 \in Restore(S, E[id].filament_id, E[id].amount_g, t)}

\* ---- the initial states ---------------------------------------------------
Table == [rows |-> spools, seq |-> spoolSeq]

\* the clock values at which a spool of the stock may follow the one before it:
\* a millisecond later (same second) or a second later
After(t) == {t + 1, t + MsPerSecond}

\* The stock every run starts from, built from the empty database by the
\* repositories themselves: POST /api/filaments twice (no initial spool), then
\* POST /api/spools for one new spool of filament 2 and two spools of filament 1
\* with any weights, tare and spacing in time.  Result: [filaments, S, now]
Stocks ==
    LET f1 == FilamentCreate(<<>>, 0, [rows |-> <<>>, seq |-> 0], <<>>, 1)
        f2 == FilamentCreate(f1.filaments, f1.seq, f1.S, <<>>, 2)
        c  == SpoolCreate(f2.S, [filament_id |-> 2, starting_weight_g |-> 10,
                                 empty_weight_g |-> NULL, weight_g |-> 10], 3)
    IN  {[filaments |-> f2.filaments,
          S |-> SpoolCreate(SpoolCreate(c, [filament_id |-> 1,
                                            starting_weight_g |-> wa[1],
                                            empty_weight_g |-> ea,
                                            weight_g |-> wa[2]], ta),
                            [filament_id |-> 1,
                             starting_weight_g |-> wb[1],
                             empty_weight_g |-> eb,
                             weight_g |-> wb[2]], tb),
          now |-> tb] :
            wa \in SpoolWeights, wb \in SpoolWeights,
            ea \in EmptyWeights, eb \in EmptyWeights,
            ta \in {4}, tb \in After(4)}

Init ==
    \E stock \in Stocks :
        /\ filaments = stock.filaments
        /\ filamentSeq = 2
        /\ spools = stock.S.rows
        /\ spoolSeq = stock.S.seq
        /\ entries = <<>>
        /\ entrySeq = 0
        /\ now = stock.now
        /\ requests = 0
        /\ inflight = <<>>
        /\ last = [op |-> "Setup", input |-> <<>>, status |-> 201,
                   before |-> <<>>, entriesBefore |-> <<>>, seqBefore |-> 0]

\* the clock value a request sees: requests arrive a second apart
Times == {now + MsPerSecond}

\* every handler: one more request handled at time t, with this outcome
Handled(op, input, status, t) ==
    /\ requests' = requests + 1
    /\ now' = t
    /\ last' = [op |-> op, input |-> input, status |-> status,
                before |-> spools, entriesBefore |-> entries, seqBefore |-> spoolSeq]

\* what a handler that answers without writing leaves behind
Reply(op, input, status, t) ==
    /\ Handled(op, <<>>, status, t)
    /\ UNCHANGED <<filaments, filamentSeq, spools, spoolSeq, entries, entrySeq>>

\* a handler's write of the spools table
SetTable(S) ==
    /\ S.seq <= MaxSpools
    /\ spools' = S.rows
    /\ spoolSeq' = S.seq

\* ---- request bodies ---------------------------------------------------------
FilamentIds == 1..MaxFilaments
SpoolIdsAll == 1..MaxSpools
EntryIds == 1..MaxEntries

\* all records over a subset of the optional fields, plus the required ones
CreateFilamentInputs ==
    {<<>>}
    \union [starting_weight_g : {10}]
    \union [starting_weight_g : {10}, empty_weight_g : {2}]

UpdateFilamentInputs ==
    [id : FilamentIds] \union [id : FilamentIds, archived : BOOLEAN]

\* the empty weight may be null, zero or positive
RestockInputs ==
    [id : FilamentIds, quantity : 1..2, weight_per_spool_g : {10},
     empty_weight_g : EmptyWeights \union {0}]

CreateSpoolInputs ==
    {[filament_id |-> f, starting_weight_g |-> w[1], empty_weight_g |-> 2, weight_g |-> w[2]] :
        f \in FilamentIds, w \in SpoolWeights}

UpdateSpoolInputs ==
    [id : SpoolIdsAll, weight_g : {2, 10}]
    \union [id : SpoolIdsAll, empty_weight_g : {NULL}]
    \union [id : SpoolIdsAll, weight_g : {2}, archived : {FALSE}]
    \union [id : SpoolIdsAll, starting_weight_g : {6}, archived : {TRUE}]

CreateConsumptionInputs == [filament_id : FilamentIds, amount_g : Amounts]

UpdateConsumptionInputs ==
    [id : EntryIds, amount_g : Amounts]
    \union [id : EntryIds, filament_id : FilamentIds]
    \union [id : EntryIds, filament_id : FilamentIds, amount_g : Amounts]

\* ---- routes/filaments.ts ----------------------------------------------------
\* POST /api/filaments
PostFilament(input, t) ==
    /\ filamentSeq < MaxFilaments
    /\ LET r == FilamentCreate(filaments, filamentSeq, Table, input, t)
       IN  /\ filaments' = r.filaments
           /\ filamentSeq' = r.seq
           /\ SetTable(r.S)
    /\ Handled("PostFilament", input, 201, t)
    /\ UNCHANGED <<entries, entrySeq>>

\* PUT /api/filaments/:id
PutFilament(input, t) ==
    IF input.id \notin DOMAIN filaments THEN Reply("PutFilament", input, 404, t)
    ELSE
      /\ LET r == FilamentUpdate(filaments, Table, input, t)
         IN  filaments' = r.filaments /\ SetTable(r.S)
      /\ Handled("PutFilament", input, 200, t)
      /\ UNCHANGED <<filamentSeq, entries, entrySeq>>

\* DELETE /api/filaments/:id?force=
DeleteFilament(input, t) ==
    IF input.id \notin DOMAIN filaments THEN Reply("DeleteFilament", input, 404, t)
    ELSE IF hasConsumptionEntries(entries, input.id) /\ ~input.force
    THEN Reply("DeleteFilament", input, 409, t)
    ELSE
      /\ LET r == FilamentDelete(filaments, Table, entries, input.id, input.force)
         IN  /\ filaments' = r.filaments
             /\ SetTable(r.S)
             /\ entries' = r.entries
             /\ Handled("DeleteFilament", input, IF r.deleted THEN 204 ELSE 500, t)
      /\ UNCHANGED <<filamentSeq, entrySeq>>

\* PATCH /api/filaments/:id/archive
PatchFilamentArchive(input, t) ==
    /\ LET r == FilamentArchive(filaments, Table, input.id, input.archived, t)
       IN  /\ filaments' = r.filaments
           /\ SetTable(r.S)
           /\ Handled("PatchFilamentArchive", input, IF r.found THEN 200 ELSE 404, t)
    /\ UNCHANGED <<filamentSeq, entries, entrySeq>>

\* POST /api/filaments/:id/restock
PostRestock(input, t) ==
    IF input.id \notin DOMAIN filaments THEN Reply("PostRestock", input, 404, t)
    ELSE
      /\ SetTable(FilamentRestock(filaments, Table, input.id, input.quantity,
                                  input.weight_per_spool_g, OrNull(input.empty_weight_g), t))
      /\ Handled("PostRestock", input, 200, t)
      /\ UNCHANGED <<filaments, filamentSeq, entries, entrySeq>>

\* ---- routes/spools.ts -------------------------------------------------------
\* POST /api/spools
PostSpool(input, t) ==
    IF input.filament_id \notin DOMAIN filaments THEN Reply("PostSpool", input, 404, t)
    ELSE
      /\ SetTable(SpoolCreate(Table, input, t))
      /\ Handled("PostSpool", input, 201, t)
      /\ UNCHANGED <<filaments, filamentSeq, entries, entrySeq>>

\* PUT /api/spools/:id
PutSpool(input, t) ==
    IF input.id \notin DOMAIN spools THEN Reply("PutSpool", input, 404, t)
    ELSE
      /\ SetTable(SpoolUpdate(Table, input, t))
      /\ Handled("PutSpool", input, 200, t)
      /\ UNCHANGED <<filaments, filamentSeq, entries, entrySeq>>

\* DELETE /api/spools/:id
DeleteSpool(input, t) ==
    IF input.id \notin DOMAIN spools THEN Reply("DeleteSpool", input, 404, t)
    ELSE
      /\ SetTable(SpoolDelete(Table, input.id))
      /\ Handled("DeleteSpool", input, 204, t)
      /\ UNCHANGED <<filaments, filamentSeq, entries, entrySeq>>

\* PATCH /api/spools/:id/archive
PatchSpoolArchive(input, t) ==
    IF input.id \notin DOMAIN spools THEN Reply("PatchSpoolArchive", input, 404, t)
    ELSE
      /\ SetTable(SpoolArchive(Table, input.id, input.archived, t))
      /\ Handled("PatchSpoolArchive", input, 200, t)
      /\ UNCHANGED <<filaments, filamentSeq, entries, entrySeq>>

\* ---- routes/consumption.ts --------------------------------------------------
\* variant: the filament is not looked up before the remaining weight is compared
SubmitConsumption_noLookup(op, input, t) ==
    IF calculateRemainingWeight(spools, input.filament_id) < input.amount_g
    THEN Reply(op, input, 400, t)
    ELSE
      /\ entrySeq < MaxEntries
      /\ \E r \in ConsumptionCreate(entries, entrySeq, Table, input, t) :
            /\ entries' = r.entries
            /\ entrySeq' = r.seq
            /\ SetTable(r.S)
      /\ Handled(op, input, 201, t)
      /\ UNCHANGED <<filaments, filamentSeq>>

\* variant: the remaining weight is not compared with the amount
SubmitConsumption_noPreCheck(op, input, t) ==
    IF input.filament_id \notin DOMAIN filaments THEN Reply(op, input, 404, t)
    ELSE
      /\ entrySeq < MaxEntries
      /\ \E r \in ConsumptionCreate(entries, entrySeq, Table, input, t) :
            /\ entries' = r.entries
            /\ entrySeq' = r.seq
            /\ SetTable(r.S)
      /\ Handled(op, input, 201, t)
      /\ UNCHANGED <<filaments, filamentSeq>>

\* variant: the pre-check uses the weights read before the previous request wrote
SubmitConsumption_staleCheck(op, input, t) ==
    IF input.filament_id \notin DOMAIN filaments THEN Reply(op, input, 404, t)
    ELSE IF calculateRemainingWeight(IF last.op = "Setup" THEN spools ELSE last.before,
                                     input.filament_id) < input.amount_g
    THEN Reply(op, input, 400, t)
    ELSE
      /\ entrySeq < MaxEntries
      /\ \E r \in ConsumptionCreate(entries, entrySeq, Table, input, t) :
            /\ entries' = r.entries
            /\ entrySeq' = r.seq
            /\ SetTable(r.S)
      /\ Handled(op, input, 201, t)
      /\ UNCHANGED <<filaments, filamentSeq>>

\* the body shared by POST /api/consumption and POST /api/gcode/upload once the
\* amount is known: existence check, remaining-weight check, create
SubmitConsumption(op, input, t) ==
    IF input.filament_id \notin DOMAIN filaments THEN Reply(op, input, 404, t)
    ELSE IF calculateRemainingWeight(spools, input.filament_id) < input.amount_g
    THEN Reply(op, input, 400, t)
    ELSE
      /\ entrySeq < MaxEntries
      /\ \E r \in ConsumptionCreate(entries, entrySeq, Table, input, t) :
            /\ entries' = r.entries
            /\ entrySeq' = r.seq
            /\ SetTable(r.S)
      /\ Handled(op, input, 201, t)
      /\ UNCHANGED <<filaments, filamentSeq>>

\* POST /api/consumption
PostConsumption(input, t) == SubmitConsumption("PostConsumption", input, t)

\* POST /api/gcode/upload, with the amount the parser extracted
PostGcodeUpload(input, t) == SubmitConsumption("PostGcodeUpload", input, t)

\* PUT /api/consumption/:id
PutConsumption(input, t) ==
    IF input.id \notin DOMAIN entries THEN Reply("PutConsumption", input, 404, t)
    ELSE
      LET existing == entries[input.id]
          filamentId == IF Has(input, "filament_id") THEN input.filament_id
                        ELSE existing.filament_id
      IN  IF filamentId \notin DOMAIN filaments THEN Reply("PutConsumption", input, 404, t)
          ELSE IF /\ Has(input, "amount_g")
                  /\ calculateRemainingWeight(spools, filamentId)
                        - (input.amount_g - existing.amount_g) < 0
          THEN Reply("PutConsumption", input, 400, t)
          ELSE
            /\ \E r \in ConsumptionUpdate(entries, Table, input, t) :
                  entries' = r.entries /\ SetTable(r.S)
            /\ Handled("PutConsumption", input, 200, t)
            /\ UNCHANGED <<filaments, filamentSeq, entrySeq>>

\* DELETE /api/consumption/:id
DeleteConsumption(input, t) ==
    IF input.id \notin DOMAIN entries THEN Reply("DeleteConsumption", input, 404, t)
    ELSE
      /\ \E r \in ConsumptionDelete(entries, Table, input.id, t) :
            entries' = r.entries /\ SetTable(r.S)
      /\ Handled("DeleteConsumption", input, 204, t)
      /\ UNCHANGED <<filaments, filamentSeq, entrySeq>>

\* ---- the system: any request, a millisecond or a second after the last ------
\* a request arrives and is handled at once: none is waiting meanwhile
Arrives == requests < MaxRequests /\ UNCHANGED inflight

DoPostFilament ==
    Arrives /\ \E t \in Times, input \in CreateFilamentInputs : PostFilament(input, t)
DoPutFilament ==
    Arrives /\ \E t \in Times, input \in UpdateFilamentInputs : PutFilament(input, t)
DoDeleteFilament ==
    Arrives /\ \E t \in Times, input \in [id : FilamentIds, force : BOOLEAN] :
                    DeleteFilament(input, t)
DoPatchFilamentArchive ==
    Arrives /\ \E t \in Times, input \in [id : FilamentIds, archived : BOOLEAN] :
                    PatchFilamentArchive(input, t)
DoPostRestock ==
    Arrives /\ \E t \in Times, input \in RestockInputs : PostRestock(input, t)
DoPostSpool ==
    Arrives /\ \E t \in Times, input \in CreateSpoolInputs : PostSpool(input, t)
DoPutSpool ==
    Arrives /\ \E t \in Times, input \in UpdateSpoolInputs : PutSpool(input, t)
DoDeleteSpool ==
    Arrives /\ \E t \in Times, input \in [id : SpoolIdsAll] : DeleteSpool(input, t)
DoPatchSpoolArchive ==
    Arrives /\ \E t \in Times, input \in [id : SpoolIdsAll, archived : BOOLEAN] :
                    PatchSpoolArchive(input, t)
DoPostConsumption ==
    Arrives /\ \E t \in Times, input \in CreateConsumptionInputs : PostConsumption(input, t)
DoPostGcodeUpload ==
    Arrives /\ \E t \in Times, input \in [filament_id : FilamentIds, amount_g : {8}] :
                    PostGcodeUpload(input, t)
DoPutConsumption ==
    Arrives /\ \E t \in Times, input \in UpdateConsumptionInputs : PutConsumption(input, t)
DoDeleteConsumption ==
    Arrives /\ \E t \in Times, input \in [id : EntryIds] : DeleteConsumption(input, t)

Next ==
    \/ DoPostFilament
    \/ DoPutFilament
    \/ DoDeleteFilament
    \/ DoPatchFilamentArchive
    \/ DoPostRestock
    \/ DoPostSpool
    \/ DoPutSpool
    \/ DoDeleteSpool
    \/ DoPatchSpoolArchive
    \/ DoPostConsumption
    \/ DoPostGcodeUpload
    \/ DoPutConsumption
    \/ DoDeleteConsumption

Spec == Init /\ [][Next]_vars

\* ---- the ledger alone: consumption entries logged, re-weighed and deleted
\* against the stock, an entry staying with its filament --------------------
LedgerArrives == requests < MaxLedgerRequests /\ UNCHANGED inflight

LedgerPost ==
    LedgerArrives /\ \E t \in Times, input \in CreateConsumptionInputs : PostConsumption(input, t)
LedgerUpload ==
    LedgerArrives /\ \E t \in Times, input \in [filament_id : FilamentIds, amount_g : {8}] :
                          PostGcodeUpload(input, t)
LedgerPut ==
    LedgerArrives /\ \E t \in Times, input \in [id : EntryIds, amount_g : Amounts] :
                          PutConsumption(input, t)
LedgerDelete ==
    LedgerArrives /\ \E t \in Times, input \in [id : EntryIds] : DeleteConsumption(input, t)

LedgerNext == LedgerPost \/ LedgerUpload \/ LedgerPut \/ LedgerDelete

SpecLedger == Init /\ [][LedgerNext]_vars

\* ---- the end-to-end run: one filament created with a single spool of 1000 g
\* (empty weight 250 g), then consumption logged by hand or from G-code -------
E2EInit ==
    LET f == FilamentCreate(<<>>, 0, [rows |-> <<>>, seq |-> 0],
                            [starting_weight_g |-> 1000, empty_weight_g |-> 250], 1)
    IN  /\ filaments = f.filaments
        /\ filamentSeq = f.seq
        /\ spools = f.S.rows
        /\ spoolSeq = f.S.seq
        /\ entries = <<>>
        /\ entrySeq = 0
        /\ now = 1
        /\ requests = 0
        /\ inflight = <<>>
        /\ last = [op |-> "Setup", input |-> <<>>, status |-> 201,
                   before |-> <<>>, entriesBefore |-> <<>>, seqBefore |-> 0]

E2EArrives == requests < MaxE2ERequests /\ UNCHANGED inflight

E2EPost ==
    E2EArrives /\ \E t \in Times, input \in [filament_id : {1}, amount_g : E2EAmounts] :
                       PostConsumption(input, t)
E2EUpload ==
    E2EArrives /\ \E t \in Times, input \in [filament_id : {1}, amount_g : {250, 251, 501}] :
                       PostGcodeUpload(input, t)

E2ENext == E2EPost \/ E2EUpload

SpecE2E == E2EInit /\ [][E2ENext]_vars

\* ---- concurrent submissions: each client sends one consumption create, by
\* hand or as a G-code upload, while the other's may still be under way.  The
\* server is one Node.js process on the synchronous better-sqlite3 driver: a
\* handler runs from one await to the next without any other handler running
\* in between.  POST /api/consumption has no await at all; POST
\* /api/gcode/upload awaits the file and two imports and then runs its lookup,
\* its remaining-weight check and the create without another await. ----------
Clients == 1..MaxClients

RaceInputs == [filament_id : {1, 2}, amount_g : Amounts]

\* the request reaches the server
RaceSubmit(c, op, input) ==
    /\ c \notin DOMAIN inflight
    /\ requests + Cardinality(DOMAIN inflight) < MaxClients
    /\ inflight' = Put(inflight, c, [op |-> op, input |-> input, pc |-> "received"])
    /\ UNCHANGED <<filaments, filamentSeq, spools, spoolSeq, entries, entrySeq, now,
                   requests, last>>

\* POST /api/gcode/upload up to its last await: file received, parser and
\* repositories imported
RaceParse(c) ==
    /\ c \in DOMAIN inflight
    /\ inflight[c].op = "PostGcodeUpload" /\ inflight[c].pc = "received"
    /\ inflight' = [inflight EXCEPT ![c].pc = "parsed"]
    /\ UNCHANGED <<filaments, filamentSeq, spools, spoolSeq, entries, entrySeq, now,
                   requests, last>>

\* the synchronous rest of the handler: lookup, check, create, response
RaceHandle(c) ==
    /\ c \in DOMAIN inflight
    /\ inflight[c].pc = (IF inflight[c].op = "PostGcodeUpload" THEN "parsed" ELSE "received")
    /\ \E t \in Times : SubmitConsumption(inflight[c].op, inflight[c].input, t)
    /\ inflight' = Drop(inflight, {c})

RacePosts ==
    \E c \in Clients, input \in RaceInputs : RaceSubmit(c, "PostConsumption", input)
RaceUploads ==
    \E c \in Clients, input \in [filament_id : {1, 2}, amount_g : {8}] :
        RaceSubmit(c, "PostGcodeUpload", input)
RaceParses == \E c \in Clients : RaceParse(c)
RaceHandles == \E c \in Clients : RaceHandle(c)

RaceNext == RacePosts \/ RaceUploads \/ RaceParses \/ RaceHandles

\* every request received is handled in the end
SpecRace == Init /\ [][RaceNext]_vars /\ WF_vars(RaceNext)

\* ---- statement by statement: POST /api/consumption with every SQL statement
\* of ConsumptionRepository.create a step of its own.  better-sqlite3 commits
\* each statement as it runs (no db.transaction around create), so the process
\* may stop between any two of them, leaving what was written. -----------------
Frame == inflight[1]
Executing == 1 \in DOMAIN inflight /\ Frame.running
Idle == inflight = <<>>

\* the route's checks, then the INSERT of ConsumptionRepository.create
StmtInsert(input, t) ==
    /\ Idle /\ requests < MaxCrashRequests
    /\ IF input.filament_id \notin DOMAIN filaments
       THEN Reply("PostConsumption", input, 404, t) /\ UNCHANGED inflight
       ELSE IF calculateRemainingWeight(spools, input.filament_id) < input.amount_g
       THEN Reply("PostConsumption", input, 400, t) /\ UNCHANGED inflight
       ELSE /\ entrySeq < MaxEntries
            /\ entries' = Put(entries, entrySeq + 1, [filament_id |-> input.filament_id,
                                                      amount_g |-> input.amount_g])
            /\ entrySeq' = entrySeq + 1
            /\ Handled("PostConsumption", input, NoResponse, t)
            /\ inflight' = Put(<<>>, 1, [op |-> "PostConsumption", input |-> input,
                                         pc |-> "fetch", running |-> TRUE,
                                         fetched |-> <<>>, targets |-> <<>>,
                                         others |-> <<>>, remaining |-> input.amount_g])
            /\ UNCHANGED <<filaments, filamentSeq, spools, spoolSeq>>

\* deductFromFilament: the SELECT, the early return and the choice of targets
StmtFetch ==
    /\ Executing /\ Frame.pc = "fetch"
    /\ \E order \in findByFilamentId(spools, Frame.input.filament_id, FALSE) :
          inflight' = IF Len(order) = 0
                      THEN [inflight EXCEPT ![1].pc = "respond"]
                      ELSE [inflight EXCEPT ![1].pc = "primary",
                                            ![1].fetched = spools,
                                            ![1].targets = TargetSpools(spools, order)]
    /\ UNCHANGED <<filaments, filamentSeq, spools, spoolSeq, entries, entrySeq, now,
                   requests, last>>

\* deductFromFilament: the UPDATE of the first target
StmtPrimary ==
    /\ Executing /\ Frame.pc = "primary"
    /\ LET targetSpool == Frame.targets[1]
           w == Frame.fetched[targetSpool].weight_g
           remaining == JsMinus(Frame.remaining, w)
       IN  IF JsGe(w, Frame.remaining)
           THEN /\ SetTable(SpoolUpdate(Table, [id |-> targetSpool,
                                                weight_g |-> Max(0, w - Frame.remaining)], now))
                /\ inflight' = [inflight EXCEPT ![1].pc = "respond", ![1].remaining = 0]
           ELSE /\ SetTable(SpoolUpdate(Table, [id |-> targetSpool, weight_g |-> 0], now))
                /\ inflight' =
                     IF JsGt(remaining, 0)
                     THEN [inflight EXCEPT
                              ![1].pc = "overflow",
                              ![1].remaining = remaining,
                              ![1].others = SortDesc(Tail(Frame.targets),
                                                     [id \in DOMAIN Frame.fetched |->
                                                         Frame.fetched[id].weight_g])]
                     ELSE [inflight EXCEPT ![1].pc = "respond", ![1].remaining = remaining]
    /\ UNCHANGED <<filaments, filamentSeq, entries, entrySeq, now, requests, last>>

\* deductFromFilament: one round of the loop over the other targets
StmtOverflow ==
    /\ Executing /\ Frame.pc = "overflow"
    /\ IF Frame.others = <<>> \/ Frame.remaining <= 0
       THEN /\ inflight' = [inflight EXCEPT ![1].pc = "respond"]
            /\ UNCHANGED <<spools, spoolSeq>>
       ELSE LET spool == Head(Frame.others)
                w == Frame.fetched[spool].weight_g
            IN  IF w >= Frame.remaining
                THEN /\ SetTable(SpoolUpdate(Table, [id |-> spool,
                                                     weight_g |-> Max(0, w - Frame.remaining)],
                                             now))
                     /\ inflight' = [inflight EXCEPT ![1].others = Tail(@),
                                                     ![1].remaining = 0]
                ELSE /\ SetTable(SpoolUpdate(Table, [id |-> spool, weight_g |-> 0], now))
                     /\ inflight' = [inflight EXCEPT ![1].others = Tail(@),
                                                     ![1].remaining = @ - w]
    /\ UNCHANGED <<filaments, filamentSeq, entries, entrySeq, now, requests, last>>

\* create returns and the route answers 201
StmtRespond ==
    /\ Executing /\ Frame.pc = "respond"
    /\ last' = [last EXCEPT !.status = 201]
    /\ inflight' = <<>>
    /\ UNCHANGED <<filaments, filamentSeq, spools, spoolSeq, entries, entrySeq, now, requests>>

\* variant: create runs inside a transaction, so stopping undoes its statements
Crash_rollsBack ==
    /\ Executing
    /\ inflight' = [inflight EXCEPT ![1].running = FALSE]
    /\ entries' = last.entriesBefore
    /\ entrySeq' = entrySeq - 1
    /\ spools' = last.before
    /\ spoolSeq' = last.seqBefore
    /\ UNCHANGED <<filaments, filamentSeq, now, requests, last>>

\* the process stops between two statements: every statement that ran is
\* committed (autocommit, journal_mode = WAL), the rest of the request never runs
Crash ==
    /\ Executing
    /\ inflight' = [inflight EXCEPT ![1].running = FALSE]
    /\ UNCHANGED <<filaments, filamentSeq, spools, spoolSeq, entries, entrySeq, now,
                   requests, last>>

CrashInputs == [filament_id : {1, 2, 3}, amount_g : Amounts]
StmtInserts == \E input \in CrashInputs, t \in Times : StmtInsert(input, t)
CrashNext == StmtInserts \/ StmtFetch \/ StmtPrimary \/ StmtOverflow \/ StmtRespond \/ Crash
SpecCrash == Init /\ [][CrashNext]_vars

\* ---- low-stock notifications: GET /api/notifications read between filament
\* creation and archiving and consumption --------------------------------------
\* restock_threshold_g as parseFloat reads it: the default, or a configured value
Thresholds == {DefaultThreshold, 8}

\* the responses of GET /api/notifications: filamentRepository.findAll(false)
\* filtered and sorted by remaining weight (filaments of equal remaining weight
\* in any order)
notifications(F, rows, threshold) ==
    LET remaining == [f \in DOMAIN F |-> calculateRemainingWeight(rows, f)]
        listed == {f \in DOMAIN F : /\ ~F[f].archived
                                    /\ remaining[f] <= threshold
                                    /\ remaining[f] > 0}
    IN  {p \in Perms(listed) :
            \A i, j \in 1..Cardinality(listed) : i < j => remaining[p[i]] <= remaining[p[j]]}

\* GET /api/notifications
GetNotifications(input, t) ==
    /\ Handled("GetNotifications", input, 200, t)
    /\ UNCHANGED <<filaments, filamentSeq, spools, spoolSeq, entries, entrySeq>>

NotifyArrives == requests < MaxNotifyRequests /\ UNCHANGED inflight

NotifyPostFilament ==
    NotifyArrives /\ \E t \in Times, input \in CreateFilamentInputs : PostFilament(input, t)
NotifyArchive ==
    NotifyArrives /\ \E t \in Times, input \in [id : FilamentIds, archived : BOOLEAN] :
                          PatchFilamentArchive(input, t)
NotifyPost ==
    NotifyArrives /\ \E t \in Times, input \in CreateConsumptionInputs : PostConsumption(input, t)
NotifyGet ==
    NotifyArrives /\ \E t \in Times, input \in [threshold : Thresholds] :
                          GetNotifications(input, t)

NotifyNext == NotifyPostFilament \/ NotifyArchive \/ NotifyPost \/ NotifyGet

SpecNotify == Init /\ [][NotifyNext]_vars

\* ---- archiving next to the stock: filaments archived and restocked, spools
\* updated and archived, consumption entries created, updated and deleted ------
ArchiveArrives == requests < MaxArchiveRequests /\ UNCHANGED inflight

ArchiveFilament ==
    ArchiveArrives /\ \E t \in Times, input \in [id : FilamentIds, archived : BOOLEAN] :
                           PatchFilamentArchive(input, t)
ArchiveRestock ==
    ArchiveArrives /\ \E t \in Times, input \in RestockInputs : PostRestock(input, t)
ArchivePutSpool ==
    ArchiveArrives /\ \E t \in Times, input \in UpdateSpoolInputs : PutSpool(input, t)
ArchiveSpool ==
    ArchiveArrives /\ \E t \in Times, input \in [id : SpoolIdsAll, archived : BOOLEAN] :
                           PatchSpoolArchive(input, t)
ArchivePost ==
    ArchiveArrives /\ \E t \in Times, input \in CreateConsumptionInputs :
                           PostConsumption(input, t)
ArchivePut ==
    ArchiveArrives /\ \E t \in Times, input \in UpdateConsumptionInputs :
                           PutConsumption(input, t)
ArchiveDelete ==
    ArchiveArrives /\ \E t \in Times, input \in [id : EntryIds] : DeleteConsumption(input, t)

ArchiveNext ==
    \/ ArchiveFilament
    \/ ArchiveRestock
    \/ ArchivePutSpool
    \/ ArchiveSpool
    \/ ArchivePost
    \/ ArchivePut
    \/ ArchiveDelete

SpecArchive == Init /\ [][ArchiveNext]_vars

\* ---- the accountant called directly: consumptionRepository.create without
\* the route's check of the remaining weight, on a stock whose spools and
\* filaments are archived and unarchived in between ----------------------------
\* consumptionRepository.create(input); the INSERT fails on a filament_id that
\* is no filament (foreign_keys = ON) and nothing is written
CreateEntry(input, t) ==
    IF input.filament_id \notin DOMAIN filaments THEN Reply("create", input, 500, t)
    ELSE
      /\ entrySeq < MaxEntries
      /\ \E r \in ConsumptionCreate(entries, entrySeq, Table, input, t) :
            /\ entries' = r.entries
            /\ entrySeq' = r.seq
            /\ SetTable(r.S)
      /\ Handled("create", input, 201, t)
      /\ UNCHANGED <<filaments, filamentSeq>>

AccountantArrives == requests < MaxAccountantCalls /\ UNCHANGED inflight

AccountantArchiveSpool ==
    AccountantArrives /\ \E t \in Times, input \in [id : SpoolIdsAll, archived : BOOLEAN] :
                              PatchSpoolArchive(input, t)
AccountantArchiveFilament ==
    AccountantArrives /\ \E t \in Times, input \in [id : FilamentIds, archived : BOOLEAN] :
                              PatchFilamentArchive(input, t)
AccountantCreate ==
    AccountantArrives /\ \E t \in Times, input \in CreateConsumptionInputs :
                              CreateEntry(input, t)

AccountantNext == AccountantArchiveSpool \/ AccountantArchiveFilament \/ AccountantCreate

SpecAccountant == Init /\ [][AccountantNext]_vars

\* ---- consuming and restocking: consumption entries created, updated and
\* deleted, and filaments restocked with spools that weigh more than their
\* empty weight -----------------------------------------------------------------
DepleteArrives == requests < MaxDepleteRequests /\ UNCHANGED inflight

DepletePost ==
    DepleteArrives /\ \E t \in Times, input \in CreateConsumptionInputs :
                           PostConsumption(input, t)
DepletePut ==
    DepleteArrives /\ \E t \in Times, input \in UpdateConsumptionInputs :
                           PutConsumption(input, t)
DepleteDelete ==
    DepleteArrives /\ \E t \in Times, input \in [id : EntryIds] : DeleteConsumption(input, t)
DepleteRestock ==
    DepleteArrives /\ \E t \in Times, input \in RestockInputs :
                           /\ input.weight_per_spool_g > OrZero(input.empty_weight_g)
                           /\ PostRestock(input, t)

DepleteNext == DepletePost \/ DepletePut \/ DepleteDelete \/ DepleteRestock

SpecDeplete == Init /\ [][DepleteNext]_vars

\* ---- re-weighing and consuming: spools given a new weight by hand
\* (PUT /api/spools/:id), consumption entries created ---------------------------
StickyArrives == requests < MaxStickyRequests /\ UNCHANGED inflight

StickyPutSpool ==
    StickyArrives /\ \E t \in Times, input \in [id : SpoolIdsAll, weight_g : {2, 10}] :
                          PutSpool(input, t)
StickyPost ==
    StickyArrives /\ \E t \in Times, input \in CreateConsumptionInputs :
                          PostConsumption(input, t)

StickyNext == StickyPutSpool \/ StickyPost

SpecSticky == Init /\ [][StickyNext]_vars

\* ==== properties ============================================================
\* what the properties read off a state
Accepted == last.status \in {200, 201, 204}
Logged == last.op \in {"PostConsumption", "PostGcodeUpload"} /\ last.status = 201
NetRemaining(row) == row.weight_g - (IF row.empty_weight_g = NULL THEN 0 ELSE row.empty_weight_g)
Weights(rows) == [id \in DOMAIN rows |-> rows[id].weight_g]
\* sum of the weights of the filament's non-archived spools
Active(rows, f) == SumOver(Weights(rows), {id \in DOMAIN rows :
                                rows[id].filament_id = f /\ ~rows[id].archived})
\* sum of the amounts of the filament's entries
Consumed(E, f) == SumOver([e \in DOMAIN E |-> E[e].amount_g],
                          {e \in DOMAIN E : E[e].filament_id = f})
\* total weight over all rows of a table
Gross(rows) == SumOver(Weights(rows), DOMAIN rows)
\* the rows the last request wrote
Written == {id \in DOMAIN spools \cap DOMAIN last.before : spools[id] # last.before[id]}

\* C1 (conservation): in a run of consumption create / update / delete requests
\* whose logged total stays within the stock, every step leaves
\* (active spool weights + logged amounts) of each filament unchanged, so the
\* sum stays equal to the initial stock.
C1_Conservation ==
    [][\A f \in DOMAIN filaments :
          Consumed(entries', f) <= Active(spools, f) + Consumed(entries, f)
          => Active(spools', f) + Consumed(entries', f)
               = Active(spools, f) + Consumed(entries, f)]_vars

\* C2 (idempotent reversal): deleting an entry right after it was created
\* returns every spool whose weight the creation changed to the weight it had
\* before the creation.
C2_Reversal ==
    [][(/\ Logged
        /\ last'.op = "DeleteConsumption" /\ last'.status = 204
        /\ last'.input.id = entrySeq)
       => \A id \in DOMAIN last.before :
            spools[id].weight_g # last.before[id].weight_g
            => spools'[id].weight_g = last.before[id].weight_g]_vars

\* C3 (net zero): creating an entry of at most the filament's remaining weight
\* and deleting it right away leaves the filament's remaining weight as it was
\* before the creation.
C3_NetZero ==
    [][(/\ Logged
        /\ last.input.amount_g <= Active(last.before, last.input.filament_id)
        /\ last'.op = "DeleteConsumption" /\ last'.status = 204
        /\ last'.input.id = entrySeq)
       => Active(spools', last.input.filament_id)
            = Active(last.before, last.input.filament_id)]_vars

\* C4 (auto-archive): after a spool update without an archived field (PUT
\* /api/spools/:id, or the updates a consumption request makes), every written
\* spool with weight - (emptyWeight or 0) <= 0 is archived.
C4_AutoArchive ==
    (/\ Accepted
     /\ \/ last.op = "PutSpool" /\ ~Has(last.input, "archived")
        \/ last.op \in {"PostConsumption", "PostGcodeUpload", "PutConsumption",
                        "DeleteConsumption"})
    => \A id \in Written : NetRemaining(spools[id]) <= 0 => spools[id].archived

\* a spool that was active is updated to exactly its tare weight and ends archived
C4_Witness ==
    /\ last.op = "PutSpool" /\ last.status = 200 /\ ~Has(last.input, "archived")
    /\ last.input.id \in DOMAIN spools
    /\ ~last.before[last.input.id].archived
    /\ spools[last.input.id].weight_g = 2
    /\ spools[last.input.id].empty_weight_g = 2
    /\ spools[last.input.id].archived

\* C5 (explicit flag wins): after a spool update or archive call that supplies
\* archived, the stored flag is the supplied one.
C5_ExplicitArchived ==
    (/\ last.op \in {"PutSpool", "PatchSpoolArchive"} /\ last.status = 200
     /\ Has(last.input, "archived"))
    => spools[last.input.id].archived = last.input.archived

\* archived = false on a spool at its tare weight leaves it non-archived
C5_Witness ==
    /\ last.op = "PutSpool" /\ last.status = 200
    /\ Has(last.input, "archived") /\ last.input.archived = FALSE
    /\ NetRemaining(spools[last.input.id]) <= 0
    /\ ~spools[last.input.id].archived

\* C6 (no auto-unarchive): a spool's archived flag goes from true to false only
\* in a spool update / archive request for that spool that supplies
\* archived = false.
C6_NeverUnarchives ==
    \A id \in DOMAIN spools \cap DOMAIN last.before :
        (last.before[id].archived /\ ~spools[id].archived)
        => /\ last.op \in {"PutSpool", "PatchSpoolArchive"}
           /\ last.input.id = id
           /\ Has(last.input, "archived")
           /\ last.input.archived = FALSE

\* a filament is unarchived and its archived spool, still holding filament,
\* stays archived
C6_Witness ==
    /\ last.op = "PatchFilamentArchive" /\ last.status = 200
    /\ last.input.archived = FALSE
    /\ \E id \in DOMAIN spools :
          /\ spools[id].filament_id = last.input.id
          /\ last.before[id].archived /\ spools[id].archived
          /\ NetRemaining(spools[id]) > 0

\* C7 (cascade): right after archive(filamentId, true) on an existing filament
\* the filament and all its spools are archived, no spool weight has changed,
\* no spool was added or removed and no other filament's spool was written.
C7_Cascade ==
    (/\ last.op = "PatchFilamentArchive" /\ last.status = 200
     /\ last.input.archived = TRUE)
    => /\ filaments[last.input.id].archived
       /\ DOMAIN spools = DOMAIN last.before
       /\ \A id \in DOMAIN spools :
            /\ spools[id].filament_id = last.input.id => spools[id].archived
            /\ spools[id].weight_g = last.before[id].weight_g
            /\ spools[id].filament_id # last.input.id => spools[id] = last.before[id]

\* the archived filament owned an active spool that still held filament
C7_Witness ==
    /\ last.op = "PatchFilamentArchive" /\ last.status = 200
    /\ last.input.archived = TRUE
    /\ \E id \in DOMAIN spools :
          /\ spools[id].filament_id = last.input.id
          /\ ~last.before[id].archived /\ spools[id].archived
          /\ NetRemaining(spools[id]) > 0
    /\ \E id \in DOMAIN spools :
          spools[id].filament_id # last.input.id /\ ~spools[id].archived

\* the spools deduct may pick as primary, as the claim describes them: the used
\* non-archived spools updated last, or with no used spool the non-archived
\* spools created last
Primaries(rows, f) ==
    LET active == {id \in DOMAIN rows : rows[id].filament_id = f /\ ~rows[id].archived}
        used == {id \in active : rows[id].weight_g < rows[id].starting_weight_g}
    IN  IF used # {}
        THEN {p \in used : \A u \in used : rows[p].updated_at >= rows[u].updated_at}
        ELSE {p \in active : \A u \in active : rows[p].created_at >= rows[u].created_at}

\* C8 (deduct targeting): an accepted consumption create deducts from such a
\* primary: when it holds at least the amount, its weight drops by the amount
\* and no other spool's weight changes (otherwise it is emptied).
C8_DeductTargeting ==
    Logged
    => \E p \in Primaries(last.before, last.input.filament_id) :
          IF last.before[p].weight_g >= last.input.amount_g
          THEN /\ DOMAIN spools = DOMAIN last.before
               /\ spools[p].weight_g = last.before[p].weight_g - last.input.amount_g
               /\ \A id \in DOMAIN spools \ {p} : spools[id].weight_g = last.before[id].weight_g
          ELSE spools[p].weight_g = 0

\* a used spool took the whole amount although the filament had a newer,
\* unused spool
C8_Witness ==
    /\ Logged
    /\ \E p, q \in DOMAIN last.before :
          /\ last.before[p].filament_id = last.input.filament_id
          /\ last.before[q].filament_id = last.input.filament_id
          /\ ~last.before[p].archived /\ ~last.before[q].archived
          /\ last.before[p].weight_g < last.before[p].starting_weight_g
          /\ last.before[q].weight_g = last.before[q].starting_weight_g
          /\ last.before[q].created_at > last.before[p].created_at
          /\ last.before[p].weight_g >= last.input.amount_g
          /\ spools[p].weight_g = last.before[p].weight_g - last.input.amount_g
          /\ spools[q].weight_g = last.before[q].weight_g

\* C9 (deduct overflow): an accepted consumption create of at most the
\* filament's remaining weight removes exactly the amount from the spools.
C9_DeductAll ==
    (Logged /\ last.input.amount_g <= Active(last.before, last.input.filament_id))
    => /\ DOMAIN spools = DOMAIN last.before
       /\ Gross(last.before) - Gross(spools) = last.input.amount_g

\* C10 (restore targeting): deleting an entry of a filament that has a
\* non-archived spool adds the entry's amount to one lightest non-archived spool
\* and changes no other spool's weight.
C10_RestoreTargeting ==
    (last.op = "DeleteConsumption" /\ last.status = 204)
    => LET entry == last.entriesBefore[last.input.id]
           active == {id \in DOMAIN last.before :
                        /\ last.before[id].filament_id = entry.filament_id
                        /\ ~last.before[id].archived}
       IN  active # {}
           => /\ DOMAIN spools = DOMAIN last.before
              /\ \E p \in active :
                    /\ \A u \in active : last.before[p].weight_g <= last.before[u].weight_g
                    /\ spools[p].weight_g = last.before[p].weight_g + entry.amount_g
                    /\ \A id \in DOMAIN spools \ {p} :
                          spools[id].weight_g = last.before[id].weight_g

\* the amount went to the lighter of two active spools and the heavier kept its weight
C10_Witness ==
    /\ last.op = "DeleteConsumption" /\ last.status = 204
    /\ \E p, q \in DOMAIN last.before :
          /\ last.before[p].filament_id = last.entriesBefore[last.input.id].filament_id
          /\ last.before[q].filament_id = last.before[p].filament_id
          /\ ~last.before[p].archived /\ ~last.before[q].archived
          /\ last.before[p].weight_g < last.before[q].weight_g
          /\ spools[p].weight_g
                = last.before[p].weight_g + last.entriesBefore[last.input.id].amount_g
          /\ spools[q].weight_g = last.before[q].weight_g

\* the filament's non-archived spools in a table
ActiveSpools(rows, f) == {id \in DOMAIN rows : rows[id].filament_id = f /\ ~rows[id].archived}

\* C11 (restore creates a spool): deleting an entry of a filament that has no
\* non-archived spool creates exactly one new spool: non-archived, owned by the
\* filament, starting weight = weight = the entry's amount, no empty weight;
\* every spool that existed is left as it was.
C11_RestoreCreates ==
    (/\ last.op = "DeleteConsumption" /\ last.status = 204
     /\ ActiveSpools(last.before, last.entriesBefore[last.input.id].filament_id) = {})
    => LET entry == last.entriesBefore[last.input.id]
       IN  /\ DOMAIN spools = DOMAIN last.before \union {spoolSeq}
           /\ spoolSeq \notin DOMAIN last.before
           /\ spools[spoolSeq].filament_id = entry.filament_id
           /\ spools[spoolSeq].starting_weight_g = entry.amount_g
           /\ spools[spoolSeq].weight_g = entry.amount_g
           /\ spools[spoolSeq].empty_weight_g = NULL
           /\ ~spools[spoolSeq].archived
           /\ \A id \in DOMAIN last.before : spools[id] = last.before[id]

\* the deleted entry's filament had spools, all of them archived
C11_Witness ==
    /\ last.op = "DeleteConsumption" /\ last.status = 204
    /\ ActiveSpools(last.before, last.entriesBefore[last.input.id].filament_id) = {}
    /\ \E id \in DOMAIN last.before :
          last.before[id].filament_id = last.entriesBefore[last.input.id].filament_id
    /\ spoolSeq \in DOMAIN spools \ DOMAIN last.before

\* the spools the last request added
Added == DOMAIN spools \ DOMAIN last.before

\* what a restock request adds and leaves alone, with the empty weight the new
\* spools are to carry
Restocked(emptyWeight) ==
    /\ Cardinality(Added) = last.input.quantity
    /\ \A id \in Added :
          /\ spools[id].filament_id = last.input.id
          /\ spools[id].starting_weight_g = last.input.weight_per_spool_g
          /\ spools[id].weight_g = last.input.weight_per_spool_g
          /\ spools[id].empty_weight_g = emptyWeight
          /\ ~spools[id].archived
    /\ \A id \in DOMAIN last.before : id \in DOMAIN spools /\ spools[id] = last.before[id]

\* C12 (restock), as stated: a restock of an existing filament adds exactly
\* quantity non-archived spools of that filament with starting weight = weight =
\* weightPerSpool and the empty weight given, and changes no other spool; a
\* restock of a missing filament answers not-found and adds no spool.
C12_RestockAsGiven ==
    /\ (last.op = "PostRestock" /\ last.status = 200) => Restocked(last.input.empty_weight_g)
    /\ (last.op = "PostRestock" /\ last.status = 404) => spools = last.before

\* C12 (restock), amended: as above, except that an empty weight of 0 is stored
\* as null.
C12_Restock ==
    /\ (last.op = "PostRestock" /\ last.status = 200)
       => Restocked(IF last.input.empty_weight_g = 0 THEN NULL ELSE last.input.empty_weight_g)
    /\ (last.op = "PostRestock" /\ last.status = 404) => spools = last.before

\* two spools were added to a stocked filament with an empty weight of 0
C12_Witness ==
    /\ last.op = "PostRestock" /\ last.status = 200
    /\ last.input.quantity = 2 /\ last.input.empty_weight_g = 0
    /\ Cardinality(Added) = 2
    /\ \E id \in DOMAIN last.before : last.before[id].filament_id = last.input.id

Prior == [rows |-> last.before, seq |-> last.seqBefore]
Existing == last.entriesBefore[last.input.id]
Updated == last.op = "PutConsumption" /\ last.status = 200
\* the request moves the entry to another filament
Moves == Has(last.input, "filament_id") /\ last.input.filament_id # Existing.filament_id

\* C14 (update of the amount): an accepted entry update that leaves the
\* filament as it is acts on the spools exactly as deduct(f, delta) when
\* delta = new amount - old amount > 0, exactly as restore(f, -delta) when
\* delta < 0, and changes no spool when the amount is absent or unchanged.
C14_AmountOnly ==
    (Updated /\ ~Moves)
    => LET delta == IF Has(last.input, "amount_g")
                    THEN last.input.amount_g - Existing.amount_g ELSE 0
       IN  /\ delta > 0 => Table \in Deduct(Prior, Existing.filament_id, delta, now)
           /\ delta < 0 => Table \in Restore(Prior, Existing.filament_id, -delta, now)
           /\ delta = 0 => spools = last.before /\ spoolSeq = last.seqBefore

\* an entry of 3 g was raised to 8 g and 5 g left the filament's spools
C14_Witness ==
    /\ Updated /\ ~Moves
    /\ Has(last.input, "amount_g")
    /\ last.input.amount_g - Existing.amount_g = 5
    /\ Gross(last.before) - Gross(spools) = 5

\* total weight of all spools of a filament, archived or not
FilamentGross(rows, f) == SumOver(Weights(rows), {id \in DOMAIN rows : rows[id].filament_id = f})

\* the tables an update moving the entry to another filament with another
\* amount may leave, when the difference of the amounts is settled with
\* filament `settledWith`: deduct or restore of the difference, then
\* restore(old filament, old amount), then deduct(new filament, new amount)
MovedAndResized(settledWith) ==
    LET delta == last.input.amount_g - Existing.amount_g
        first == IF delta > 0 THEN Deduct(Prior, settledWith, delta, now)
                 ELSE Restore(Prior, settledWith, -delta, now)
        second == UNION {Restore(S, Existing.filament_id, Existing.amount_g, now) : S \in first}
    IN  UNION {Deduct(S, last.input.filament_id, last.input.amount_g, now) : S \in second}

\* the request moves the entry and changes its amount
MovesAndResizes ==
    /\ Updated /\ Moves
    /\ Has(last.input, "amount_g") /\ last.input.amount_g # Existing.amount_g

\* C15 (update of filament and amount), as stated: the difference of the
\* amounts is deducted from / restored to the OLD filament's spools, and in
\* addition restore(old, old amount) and deduct(new, new amount) are performed.
C15_DeltaOnOldFilament ==
    MovesAndResizes => Table \in MovedAndResized(Existing.filament_id)

\* C15 (update of filament and amount), amended: the difference of the amounts
\* is deducted from / restored to the NEW filament's spools, and in addition
\* restore(old, old amount) and deduct(new, new amount) are performed.
C15_DeltaOnNewFilament ==
    MovesAndResizes => Table \in MovedAndResized(last.input.filament_id)

\* the amount was raised while the entry moved, and the old filament got back
\* exactly the old amount: nothing of the difference was taken from it
C15_Witness ==
    /\ MovesAndResizes
    /\ last.input.amount_g > Existing.amount_g
    /\ FilamentGross(spools, Existing.filament_id)
         = FilamentGross(last.before, Existing.filament_id) + Existing.amount_g
    /\ FilamentGross(spools, last.input.filament_id)
         < FilamentGross(last.before, last.input.filament_id)

\* C16 (update of the filament alone): an accepted update that names another
\* filament and no amount performs restore(old filament, A) and then
\* deduct(new filament, A), A being the entry's stored amount: the old
\* filament's spools regain exactly A and, when the new filament's primary spool
\* holds at least A, the new filament's spools lose exactly A.
C16_MoveKeepsAmount ==
    (Updated /\ Moves /\ ~Has(last.input, "amount_g"))
    => /\ Table \in UNION {Deduct(S, last.input.filament_id, Existing.amount_g, now) :
                            S \in Restore(Prior, Existing.filament_id, Existing.amount_g, now)}
       /\ FilamentGross(spools, Existing.filament_id)
            = FilamentGross(last.before, Existing.filament_id) + Existing.amount_g
       /\ (\A p \in Primaries(last.before, last.input.filament_id) :
              last.before[p].weight_g >= Existing.amount_g)
          => FilamentGross(spools, last.input.filament_id)
               = FilamentGross(last.before, last.input.filament_id) - Existing.amount_g

\* the request was answered with not-found and wrote nothing
NotFoundNoWrite ==
    /\ last'.status = 404
    /\ UNCHANGED <<filaments, filamentSeq, spools, spoolSeq, entries, entrySeq>>

\* C17 (not found): an entry update or delete that names a missing entry, and
\* a consumption create that names a missing filament, answer not-found and
\* change no entry and no spool; an accepted entry delete removes that entry
\* only and returns its amount to the spools of its filament.
C17_NotFound ==
    [][/\ \A t \in Times, input \in UpdateConsumptionInputs :
             (input.id \notin DOMAIN entries /\ PutConsumption(input, t)) => NotFoundNoWrite
       /\ \A t \in Times, input \in [id : EntryIds] :
             (input.id \notin DOMAIN entries /\ DeleteConsumption(input, t)) => NotFoundNoWrite
       /\ \A t \in Times, input \in CreateConsumptionInputs :
             (/\ input.filament_id \notin DOMAIN filaments
              /\ PostConsumption(input, t) \/ PostGcodeUpload(input, t)) => NotFoundNoWrite
       /\ (last'.op = "DeleteConsumption" /\ last'.status = 204)
          => LET id == last'.input.id
             IN  /\ DOMAIN entries' = DOMAIN entries \ {id}
                 /\ \A e \in DOMAIN entries' : entries'[e] = entries[e]
                 /\ FilamentGross(spools', entries[id].filament_id)
                      = FilamentGross(spools, entries[id].filament_id) + entries[id].amount_g]_vars

\* a consumption request was answered with not-found while an entry existed,
\* and the entry and the spools are as they were
C17_Witness ==
    /\ last.op \in {"PutConsumption", "DeleteConsumption", "PostConsumption"}
    /\ last.status = 404
    /\ entries # <<>> /\ entries = last.entriesBefore
    /\ spools = last.before

\* C18 (no negative weight): every spool, archived or not, has a weight >= 0
\* in every state reached by consumption create / update / delete, restock and
\* filament archive (and the other requests) from a stock of non-negative weights.
C18_WeightNonNegative ==
    \A id \in DOMAIN spools : spools[id].weight_g >= 0

\* an accepted entry asked for more than its first spool held, and that spool
\* stopped at 0
C18_Witness ==
    /\ Logged
    /\ \E id \in DOMAIN last.before :
          /\ last.before[id].filament_id = last.input.filament_id
          /\ last.before[id].weight_g > 0
          /\ last.before[id].weight_g < last.input.amount_g
          /\ spools[id].weight_g = 0

\* the spools the last request removed
Removed == DOMAIN last.before \ DOMAIN spools

\* C19 (spool removal), as stated: a spool ceases to exist only in the
\* cascading deletion of the filament that owns it.
C19_OnlyByCascade ==
    \A id \in Removed :
        last.op = "DeleteFilament" /\ last.before[id].filament_id = last.input.id

\* C19 (spool removal), amended: a spool ceases to exist only in the cascading
\* deletion of the filament that owns it or in a delete request for that spool
\* (DELETE /api/spools/:id).
C19_OnlyByCascadeOrDelete ==
    \A id \in Removed :
        \/ last.op = "DeleteFilament" /\ last.before[id].filament_id = last.input.id
        \/ last.op = "DeleteSpool" /\ last.input.id = id

\* a spool was deleted on its own; its filament still exists
C19_Witness ==
    /\ last.op = "DeleteSpool" /\ last.status = 204
    /\ Removed = {last.input.id}
    /\ last.before[last.input.id].filament_id \in DOMAIN filaments

\* C20 (filament deletion): deleting a filament that has a consumption entry,
\* without force, is refused and removes nothing; deleting with force, or
\* deleting a filament without entries, removes the filament with all its
\* spools and all its entries, and afterwards no spool and no entry names a
\* filament that does not exist.
C20_FilamentDeletion ==
    [][\A t \in Times, input \in [id : FilamentIds, force : BOOLEAN] :
          (input.id \in DOMAIN filaments /\ DeleteFilament(input, t))
          => IF hasConsumptionEntries(entries, input.id) /\ ~input.force
             THEN /\ last'.status = 409
                  /\ UNCHANGED <<filaments, spools, entries>>
             ELSE /\ last'.status = 204
                  /\ DOMAIN filaments' = DOMAIN filaments \ {input.id}
                  /\ DOMAIN spools' = {s \in DOMAIN spools : spools[s].filament_id # input.id}
                  /\ DOMAIN entries' = {e \in DOMAIN entries : entries[e].filament_id # input.id}
                  /\ \A s \in DOMAIN spools' : spools'[s].filament_id \in DOMAIN filaments'
                  /\ \A e \in DOMAIN entries' : entries'[e].filament_id \in DOMAIN filaments']_vars

\* a filament with spools and an entry was deleted with force
C20_Witness ==
    /\ last.op = "DeleteFilament" /\ last.status = 204 /\ last.input.force
    /\ \E e \in DOMAIN last.entriesBefore : last.entriesBefore[e].filament_id = last.input.id
    /\ \E s \in DOMAIN last.before : last.before[s].filament_id = last.input.id
    /\ last.input.id \notin DOMAIN filaments
    /\ entries = <<>>

\* C21 (insufficient filament): a consumption create (by hand or from G-code)
\* for an existing filament whose remaining weight, the sum of its non-archived
\* spools' weights, is below the amount is answered with the
\* insufficient-filament error (400); no entry is stored and no spool changes.
C21_Insufficient ==
    [][\A t \in Times, input \in CreateConsumptionInputs :
          (/\ input.filament_id \in DOMAIN filaments
           /\ Active(spools, input.filament_id) < input.amount_g
           /\ PostConsumption(input, t) \/ PostGcodeUpload(input, t))
          => /\ last'.status = 400
             /\ UNCHANGED <<filaments, filamentSeq, spools, spoolSeq, entries, entrySeq>>]_vars

\* a create was refused for a filament that still had some weight left
C21_Witness ==
    /\ last.op \in {"PostConsumption", "PostGcodeUpload"} /\ last.status = 400
    /\ spools = last.before /\ entries = last.entriesBefore
    /\ \E f \in DOMAIN filaments : Active(spools, f) > 0 /\ Active(spools, f) < 8

\* C22 (deduct within stock): in every accepted consumption create or update,
\* each deduct is called with an amount that is at most the remaining weight
\* the targeted filament has at the time of the call, also when the update
\* moves the entry to another filament.
C22_DeductWithinStock ==
    /\ Logged => last.input.amount_g <= Active(last.before, last.input.filament_id)
    /\ Updated
       => LET target == IF Has(last.input, "filament_id") THEN last.input.filament_id
                        ELSE Existing.filament_id
              delta == IF Has(last.input, "amount_g")
                       THEN last.input.amount_g - Existing.amount_g ELSE 0
          IN  /\ delta > 0 => delta <= Active(last.before, target)
              /\ Moves
                 => \A S1 \in AdjustAmount(Prior, last.input, Existing, now) :
                      \A S2 \in Restore(S1, Existing.filament_id, Existing.amount_g, now) :
                         /\ Has(last.input, "amount_g")
                         /\ last.input.amount_g <= Active(S2.rows, target)

Stopped == 1 \in DOMAIN inflight /\ ~Frame.running
\* the spools the interrupted deduct had not reached yet
Unreached == {Frame.others[i] : i \in 1..Len(Frame.others)}

\* C24 (no transaction around create): the entry row is written first and the
\* spool writes follow as separate statements.  When the process stops after
\* the insert and before the first spool write, the database holds the new
\* entry and the spools exactly as they were before the request; when it stops
\* inside a deduct that spans several spools, the first target is written and
\* every spool not reached yet still has its old row.  A create that is not
\* interrupted ends in a table that deduct(f, amount) produces.
C24_Interrupted ==
    /\ Stopped =>
          /\ entrySeq \in DOMAIN entries
          /\ entrySeq \notin DOMAIN last.entriesBefore
          /\ entries[entrySeq] = [filament_id |-> Frame.input.filament_id,
                                  amount_g |-> Frame.input.amount_g]
          /\ Frame.pc \in {"fetch", "primary"} => spools = last.before
          /\ (Frame.pc = "overflow" /\ Frame.others # <<>> /\ Frame.remaining > 0) =>
                /\ spools[Frame.targets[1]].weight_g = 0
                /\ spools[Frame.targets[1]] # last.before[Frame.targets[1]]
                /\ \A id \in Unreached : spools[id] = last.before[id]
    /\ (Idle /\ last.op = "PostConsumption" /\ last.status = 201) =>
          Table \in Deduct(Prior, last.input.filament_id, last.input.amount_g, now)

\* a deduct over two spools stopped after the first spool was emptied, with
\* grams still to take from a spool that holds some
C24_Witness ==
    /\ Stopped /\ Frame.pc = "overflow" /\ Frame.remaining > 0
    /\ \E id \in Unreached : spools[id].weight_g > 0 /\ ~spools[id].archived
    /\ entries[entrySeq].amount_g = Frame.input.amount_g
    /\ spools # last.before

\* ---- C25 ---------------------------------------------------------------------
\* what GET /api/notifications answers in the state it was asked in
Listed ==
    {f \in DOMAIN filaments :
        \E p \in notifications(filaments, spools, last.input.threshold) :
            \E i \in 1..Len(p) : p[i] = f}
Asked == last.op = "GetNotifications" /\ last.status = 200

\* C25 (low-stock notifications): the list holds every filament that is not
\* archived and whose remaining weight is below the restock threshold, and no
\* filament whose remaining weight is above the threshold.
C25_Notifications ==
    Asked =>
        \A f \in DOMAIN filaments :
            LET remaining == calculateRemainingWeight(spools, f)
            IN  /\ (~filaments[f].archived /\ remaining < last.input.threshold) => f \in Listed
                /\ remaining > last.input.threshold => f \notin Listed

\* ---- C26 ---------------------------------------------------------------------
\* C26 (archived filaments hold no active spool): whatever filament archives,
\* restocks, spool updates and archives and entry creates, updates and deletes
\* were made, a filament whose archived flag is set owns no spool that is not
\* archived.
C26_ArchivedOwnsNone ==
    \A f \in DOMAIN filaments :
        filaments[f].archived =>
            \A id \in DOMAIN spools :
                spools[id].filament_id = f => spools[id].archived

\* ---- C27 ---------------------------------------------------------------------
Created == last.op = "create" /\ last.status = 201

\* C27 (create without an active spool): create on a filament that has no
\* non-archived spool adds the entry as given and leaves the spools table as it
\* was: no row changed, no row added.
C27_NoActiveSpool ==
    (Created /\ ActiveSpools(last.before, last.input.filament_id) = {}) =>
        /\ DOMAIN entries = DOMAIN last.entriesBefore \union {entrySeq}
        /\ entrySeq \notin DOMAIN last.entriesBefore
        /\ entries[entrySeq] = [filament_id |-> last.input.filament_id,
                                amount_g |-> last.input.amount_g]
        /\ \A e \in DOMAIN last.entriesBefore : entries[e] = last.entriesBefore[e]
        /\ spools = last.before
        /\ spoolSeq = last.seqBefore

\* create was called for a filament whose spools are all archived
C27_Witness ==
    /\ Created
    /\ ActiveSpools(last.before, last.input.filament_id) = {}
    /\ \E id \in DOMAIN last.before : last.before[id].filament_id = last.input.filament_id
    /\ entrySeq \in DOMAIN entries

\* ---- C28 ---------------------------------------------------------------------
EntryOp == last.op \in {"PostConsumption", "PostGcodeUpload", "PutConsumption",
                        "DeleteConsumption"}
\* the filaments the accepted entry request is about: the one the entry had
\* before and the one it has afterwards
EntryFilaments ==
    IF last.op \in {"PostConsumption", "PostGcodeUpload"} THEN {last.input.filament_id}
    ELSE IF last.op = "DeleteConsumption" THEN {Existing.filament_id}
    ELSE {Existing.filament_id} \union
         (IF Has(last.input, "filament_id") THEN {last.input.filament_id} ELSE {})

\* C28 (frame of the accountant): a consumption create, update or delete keeps
\* every spool row; a spool that was archived before the request keeps its
\* weight and its archived flag, every spool keeps its starting weight and its
\* empty weight, and a spool of a filament that is neither the entry's old nor
\* its new filament keeps its whole row.  A request that is turned down
\* changes no spool at all.
C28_Frame ==
    EntryOp =>
        IF ~Accepted THEN spools = last.before /\ spoolSeq = last.seqBefore
        ELSE \A id \in DOMAIN last.before :
                /\ id \in DOMAIN spools
                /\ last.before[id].archived =>
                      /\ spools[id].weight_g = last.before[id].weight_g
                      /\ spools[id].archived
                /\ spools[id].starting_weight_g = last.before[id].starting_weight_g
                /\ spools[id].empty_weight_g = last.before[id].empty_weight_g
                /\ spools[id].filament_id = last.before[id].filament_id
                /\ last.before[id].filament_id \notin EntryFilaments =>
                      spools[id] = last.before[id]

\* an entry was deleted while its filament had an archived spool, an active
\* spool and another filament had spools too
C28_Witness ==
    /\ last.op = "DeleteConsumption" /\ last.status = 204
    /\ \E id \in DOMAIN last.before :
          last.before[id].filament_id = Existing.filament_id /\ last.before[id].archived
    /\ ActiveSpools(last.before, Existing.filament_id) # {}
    /\ \E id \in DOMAIN last.before : last.before[id].filament_id # Existing.filament_id
    /\ spools # last.before

\* ---- C29 ---------------------------------------------------------------------
\* C29 (depleted spools do not stay active): when every spool starts
\* non-archived above its empty weight, and only consumption creates, updates
\* and deletes and restocks with spools above their empty weight are made,
\* every non-archived spool weighs more than its empty weight.
C29_NoDepletedActive ==
    \A id \in DOMAIN spools : ~spools[id].archived => NetRemaining(spools[id]) > 0

\* a consumption create left filament still on a spool it brought down to its
\* empty weight, and archived it in the same write
C29_Witness ==
    /\ Logged
    /\ \E id \in DOMAIN last.before :
          /\ ~last.before[id].archived /\ NetRemaining(last.before[id]) > 0
          /\ spools[id].archived
          /\ spools[id].weight_g > 0
          /\ NetRemaining(spools[id]) <= 0

\* ---- C30 ---------------------------------------------------------------------
\* the last request was an accepted consumption create whose deduct wrote
\* spool s alone, took the whole amount from it and left it non-archived
AbsorbedBy(s) ==
    /\ Logged
    /\ Written = {s}
    /\ DOMAIN spools = DOMAIN last.before
    /\ spools[s].filament_id = last.input.filament_id
    /\ spools[s].weight_g = last.before[s].weight_g - last.input.amount_g
    /\ ~spools[s].archived

====
